---- MODULE Spec2Model ----
(***************************************************************************)
(* A model of the JOTY extraction scripts:                                 *)
(*   extract_joty_clean.py     main() and the queries it issues            *)
(*   regenerate_with_names.py  main() and map_name                         *)
(* The message store (chat.db) is read-only input: it is drawn in Init and *)
(* never changes.  main() is a batch loop over the nomination candidates;  *)
(* one action models one iteration of that loop.                           *)
(***************************************************************************)
EXTENDS Integers, Sequences, FiniteSets, TLC

VARIABLES
    message,        \* the message table: ROWID -> row
    pc,             \* position of the run
    joty_messages,  \* result of get_joty_messages: sequence of ROWIDs
    pos,            \* number of candidates the for-loop has taken
    idx,            \* main's idx counter
    all_contexts,   \* main's all_contexts list (the ReviewEntries)
    md_content,     \* the sections of the markdown built so far
    trace,          \* per appended entry: the rows behind it, the queries issued
    json_file,      \* joty_candidates.json on disk (<<>> until written)
    md_file,        \* joty_review.md on disk
    passes          \* runs of regenerate_with_names.py so far: 0, 1, 2 (or more)

vars == <<message, pc, joty_messages, pos, idx, all_contexts, md_content,
          trace, json_file, md_file, passes>>

-----------------------------------------------------------------------------
(* Bounds of the model *)

\* dates are minute ticks 1..MaxDate of one day in 2025
MaxDate == 2
\* number of freely drawn context messages (ROWIDs 2..NCtx+1)
NCtx == 2
\* get_regular_context's num_before (15 in the source, scaled to the store)
num_before == 2
\* get_thread_context's num_before_thread (5 in the source, scaled likewise)
num_before_thread == 1

\* SQL NULL / Python None
NULL == "<NULL>"

-----------------------------------------------------------------------------
(* Strings *)

UPPER == "ABCDEFGHIJKLMNOPQRSTUVWXYZ"
LOWER == "abcdefghijklmnopqrstuvwxyz"

CharAt(s, i) == SubSeq(s, i, i)

\* str.lower() / SQL LOWER() of one character
LowerChar(c) ==
    IF \E i \in 1..26 : CharAt(UPPER, i) = c
    THEN CharAt(LOWER, CHOOSE i \in 1..26 : CharAt(UPPER, i) = c)
    ELSE c

RECURSIVE Lower(_)
Lower(s) == IF s = "" THEN "" ELSE LowerChar(Head(s)) \o Lower(Tail(s))

\* str.strip()
RECURSIVE LStrip(_)
LStrip(s) == IF s # "" /\ Head(s) = " " THEN LStrip(Tail(s)) ELSE s

RECURSIVE RStrip(_)
RStrip(s) ==
    IF s # "" /\ CharAt(s, Len(s)) = " "
    THEN RStrip(SubSeq(s, 1, Len(s) - 1))
    ELSE s

Strip(s) == RStrip(LStrip(s))

\* str.startswith
StartsWith(s, p) == Len(s) >= Len(p) /\ SubSeq(s, 1, Len(p)) = p

\* the positions at which p occurs in s
Occurrences(s, p) ==
    {i \in 1..(Len(s) - Len(p) + 1) : SubSeq(s, i, i + Len(p) - 1) = p}

\* p in s
Contains(s, p) == Occurrences(s, p) # {}

\* SQL  text LIKE 'prefix%'  (LIKE ignores ASCII case)
LikePrefix(t, p) == StartsWith(Lower(t), Lower(p))

\* re.search(r'a.*b', s): a, then anything, then b
SearchThen(s, a, b) ==
    \E i \in Occurrences(s, a) : \E j \in Occurrences(s, b) : j >= i + Len(a)

-----------------------------------------------------------------------------
(* The store: chat.db *)

\* message texts of the model
T_LONG     == "that's so bad"
T_SHORT    == "lol"
T_LOVED    == "Loved an image"
T_DISLIKED == "Disliked an image"
T_ROOT     == "a priest walks in"
T_JOTY     == "JOTY"
T_JOTY_LOL == " JOTY lol "

Texts == {T_LONG, T_SHORT, T_LOVED, T_DISLIKED, T_ROOT, T_JOTY, T_JOTY_LOL, "", NULL}

\* guid of the message with this ROWID; GX is the guid of no message
GuidOf(rowid) == "G" \o ToString(rowid)
GX == "GX"

\* the chat table: ROWID -> [display_name, chat_identifier]
chat ==
    [c \in {1, 2} |->
        IF c = 1
        THEN [display_name |-> "The Boys", chat_identifier |-> "chat100"]
        ELSE [display_name |-> "", chat_identifier |-> "chat212275003571070051"]]

\* the handle table: ROWID -> id
handle ==
    [h \in {1, 2, 3} |->
        CASE h = 1 -> "+14155553660"
          [] h = 2 -> "gshellady23@gmail.com"
          [] h = 3 -> "+12065550000"]

\* ROWIDs: 1 is the message threads reply to, 2..NCtx+1 are drawn freely,
\* the last two carry the nomination texts, at the ticks MaxDate and
\* MaxDate + 1
RootId == 1
CtxIds == 2..(NCtx + 1)
J1 == NCtx + 2
J2 == NCtx + 3
Msgs == 1..J2
Dates == 1..MaxDate

\* what a freely drawn row may be: text, chat (0: no chat_message_join row),
\* thread_originator_guid
CtxKinds ==
    << [text |-> T_LONG,     chat_id |-> 1, thread_originator_guid |-> NULL],
       [text |-> T_SHORT,    chat_id |-> 1, thread_originator_guid |-> NULL],
       [text |-> T_LOVED,    chat_id |-> 1, thread_originator_guid |-> NULL],
       [text |-> T_DISLIKED, chat_id |-> 1, thread_originator_guid |-> NULL],
       [text |-> "",         chat_id |-> 1, thread_originator_guid |-> GuidOf(RootId)],
       [text |-> T_LONG,     chat_id |-> 2, thread_originator_guid |-> NULL],
       [text |-> T_LONG,     chat_id |-> 1, thread_originator_guid |-> GuidOf(RootId)] >>

\* what the first nomination row may be: chat and thread_originator_guid
J1Kinds ==
    { [chat_id |-> 1, thread_originator_guid |-> NULL],
      [chat_id |-> 1, thread_originator_guid |-> GuidOf(RootId)],
      [chat_id |-> 1, thread_originator_guid |-> GX],
      [chat_id |-> 0, thread_originator_guid |-> NULL],
      [chat_id |-> 0, thread_originator_guid |-> GuidOf(RootId)],
      [chat_id |-> 2, thread_originator_guid |-> NULL] }

\* is_from_me and handle_id of a row (fixed per ROWID; 0 is a NULL
\* handle_id, handle 4 has no row in the handle table)
IsFromMe(rowid) == rowid % 5 = 0
HandleId(rowid) == rowid % 5

Row(rowid, date, text, chat_id, tog) ==
    [ date |-> date, text |-> text,
      is_from_me |-> IsFromMe(rowid), handle_id |-> HandleId(rowid),
      chat_id |-> chat_id, thread_originator_guid |-> tog,
      guid |-> GuidOf(rowid),
      cache_has_attachments |-> IF text = NULL THEN 1 ELSE 0 ]

\* the free rows are drawn in non-decreasing (date, kind) order: no query
\* reads or orders by ROWID, so every store is one of these up to renaming
Canonical(d, k) ==
    \A i \in CtxIds : \A j \in CtxIds :
        i < j => (d[i] < d[j] \/ (d[i] = d[j] /\ k[i] <= k[j]))

Store(rd, rt, d, k, jk, jt) ==
    [r \in Msgs |->
        CASE r = RootId -> Row(r, rd, rt, 1, NULL)
          [] r \in CtxIds ->
               Row(r, d[r], CtxKinds[k[r]].text, CtxKinds[k[r]].chat_id,
                   CtxKinds[k[r]].thread_originator_guid)
          [] r = J1 -> Row(r, MaxDate, T_JOTY, jk.chat_id, jk.thread_originator_guid)
          [] r = J2 -> Row(r, MaxDate + 1, T_JOTY_LOL, 1, jt)]

-----------------------------------------------------------------------------
(* Query helpers *)

\* ORDER BY m.date: every order of the rows S that is non-decreasing in
\* date (SQL leaves the order of equal dates open)
RECURSIVE OrderByDate(_)
OrderByDate(S) ==
    IF S = {} THEN {<<>>}
    ELSE UNION { {<<m>> \o t : t \in OrderByDate(S \ {m})} :
                 m \in {x \in S : \A y \in S : message[x].date <= message[y].date} }

\* list(reversed(...))
Reversed(s) == [i \in 1..Len(s) |-> s[Len(s) + 1 - i]]

\* ORDER BY m.date, the DESC forgotten
OrderByDateDesc_Asc(S) == OrderByDate(S)

\* ORDER BY m.date DESC
OrderByDateDesc(S) == {Reversed(s) : s \in OrderByDate(S)}

\* LIMIT n letting one row too many through
Limit_OneMore(s, n) == SubSeq(s, 1, IF Len(s) < n + 1 THEN Len(s) ELSE n + 1)

\* LIMIT n
Limit(s, n) == SubSeq(s, 1, IF Len(s) < n THEN Len(s) ELSE n)

\* m.text NOT LIKE 'Loved %' ... as written in the three context queries
NotReaction(t) ==
    /\ ~LikePrefix(t, "Loved ")
    /\ ~LikePrefix(t, "Liked ")
    /\ ~LikePrefix(t, "Emphasized ")
    /\ ~LikePrefix(t, "Laughed at ")

\* m.text IS NOT NULL AND m.text != '' AND the NOT LIKE lines
HasText(t) == t # NULL /\ t # "" /\ NotReaction(t)

\* HasText of each text of the model, computed once
has_text == [t \in Texts |-> HasText(t)]

\* LEFT JOIN handle h ON m.handle_id = h.ROWID: h.id, or NULL
SenderOf(rowid) ==
    IF message[rowid].handle_id \in DOMAIN handle
    THEN handle[message[rowid].handle_id]
    ELSE NULL

-----------------------------------------------------------------------------
(* extract_joty_clean.py *)

EXCLUDED_CHATS ==
    { "Olympians", "Trading Cards", "shubham.patel23@yahoo.com",
      "brothers in christ ", "Gnar 2.0", "Ballard Bois",
      "chat212275003571070051" }

\* the first tick of 2025-01-01 local time
Cutoff == 1

\* strftime("%H:%M") of apple_time_to_datetime(date): tick d is 10:0d
Hm(date) == "10:0" \o ToString(date)

\* strftime("%Y-%m-%d %H:%M")
YmdHm(date) == "2025-01-01 " \o Hm(date)

meta_patterns ==
    { <<"joty", "voting">>, <<"joty", "results">>, <<"joty", "tabulated">>,
      <<"joty", "contender">>, <<"joty", "nom">>, <<"joty", "candidate">>,
      <<"personal joty", "">>, <<"doing joty", "">>, <<"give the joty", "">>,
      <<"joty", "winner">>, <<"joty", "refractory">>, <<"joty", "hilarity">>,
      <<"strava joty", "">>, <<"joty", "hit">> }

is_actual_nomination(text) ==
    LET text_lower == Strip(Lower(text))
    IN  /\ \A p \in meta_patterns : ~SearchThen(text_lower, p[1], p[2])
        /\ ~(Len(Strip(text)) > 20)

\* the conditions on m.text in the WHERE clause of get_joty_messages
JotyText(t) ==
    /\ t # NULL
    /\ Contains(Lower(t), "joty")
    /\ ~LikePrefix(t, "Loved ")
    /\ ~LikePrefix(t, "Liked ")
    /\ ~LikePrefix(t, "Emphasized ")
    /\ ~LikePrefix(t, "Laughed at ")
    /\ ~LikePrefix(t, "Disliked ")

\* JotyText and is_actual_nomination of each text of the model, computed once
joty_text == [t \in Texts |-> JotyText(t)]
actual_nomination == [t \in Texts |-> t # NULL /\ is_actual_nomination(t)]

\* text.strip() of each text of the model, computed once
stripped == [t \in Texts |-> IF t = NULL THEN NULL ELSE Strip(t)]

\* the WHERE clause of get_joty_messages
JotyRow(rowid) == joty_text[message[rowid].text] /\ message[rowid].date >= Cutoff

\* the possible results of get_joty_messages
get_joty_messages ==
    { SelectSeq(s, LAMBDA r : actual_nomination[message[r].text]) :
      s \in OrderByDate({r \in Msgs : JotyRow(r)}) }

\* (chat_id, name); chat_id 0 stands for None
get_chat_info(joty_rowid) ==
    LET chat_id == message[joty_rowid].chat_id
    IN  IF chat_id \in DOMAIN chat
        THEN <<chat_id,
               IF chat[chat_id].display_name # ""
               THEN chat[chat_id].display_name
               ELSE chat[chat_id].chat_identifier>>
        ELSE <<0, "Unknown Chat">>

\* the rows WHERE m.guid = ?
Originators(thread_originator_guid) ==
    {r \in Msgs : message[r].guid = thread_originator_guid}

\* the pre-thread query without "m.thread_originator_guid IS NULL"
PreThreadRows_AnyThread(chat_id, originator_date) ==
    { r \in Msgs :
        /\ message[r].chat_id = chat_id
        /\ message[r].date < originator_date
        /\ has_text[message[r].text] }

\* the rows the pre-thread query selects
PreThreadRows(chat_id, originator_date) ==
    { r \in Msgs :
        /\ message[r].chat_id = chat_id
        /\ message[r].date < originator_date
        /\ has_text[message[r].text]
        /\ message[r].thread_originator_guid = NULL }

\* the rows the thread-replies query selects
ThreadReplyRows(thread_originator_guid, joty_date) ==
    { r \in Msgs :
        /\ message[r].thread_originator_guid = thread_originator_guid
        /\ message[r].date < joty_date
        /\ has_text[message[r].text] }

\* what get_thread_context returns for this originator row
ThreadResult(originator, thread_originator_guid, joty_date, chat_id, n) ==
    { LET pre_thread_msgs == Reversed(Limit(pre, n))
          thread_msgs == <<originator>> \o thread_replies
      IN  <<pre_thread_msgs \o thread_msgs, TRUE, Len(pre_thread_msgs)>> :
      pre \in OrderByDateDesc(PreThreadRows(chat_id, message[originator].date)),
      thread_replies \in OrderByDate(ThreadReplyRows(thread_originator_guid, joty_date)) }

\* the possible return values of get_thread_context: ([], False) or
\* (all_msgs, True, thread_start_index)
get_thread_context(thread_originator_guid, joty_date, joty_rowid, chat_id, n) ==
    IF Originators(thread_originator_guid) = {}
    THEN { << <<>>, FALSE >> }
    ELSE UNION { ThreadResult(originator, thread_originator_guid, joty_date, chat_id, n) :
                 originator \in Originators(thread_originator_guid) }

\* the context queries get_thread_context sends to the store
ThreadQueries(thread_originator_guid) ==
    IF Originators(thread_originator_guid) = {}
    THEN {"originator"}
    ELSE {"originator", "pre_thread", "thread_replies"}

\* the rows the flat query selects
RegularRows(chat_id, joty_date) ==
    { r \in Msgs :
        /\ message[r].chat_id = chat_id
        /\ message[r].date < joty_date
        /\ has_text[message[r].text] }

\* the possible return values of get_regular_context
get_regular_context(joty_rowid, joty_date, chat_id, n) ==
    { Reversed(Limit(s, n)) : s \in OrderByDateDesc(RegularRows(chat_id, joty_date)) }

get_handle_name(handle_id) ==
    IF handle_id = 0 THEN "Me"
    ELSE IF handle_id \in DOMAIN handle THEN handle[handle_id] ELSE "Unknown"

format_sender(sender) ==
    IF sender = "Me" THEN "Jesse"
    ELSE IF sender # NULL /\ sender # "" /\ StartsWith(sender, "+1")
    THEN "(" \o SubSeq(sender, IF Len(sender) > 4 THEN Len(sender) - 3 ELSE 1, Len(sender)) \o ")"
    ELSE IF sender # NULL /\ sender # "" /\ Contains(sender, "@")
    THEN SubSeq(sender, 1, (CHOOSE i \in Occurrences(sender, "@") :
                              \A j \in Occurrences(sender, "@") : i <= j) - 1)
    ELSE IF sender # NULL /\ sender # "" THEN sender ELSE "Unknown"

\* format_sender of everything a sender column or get_handle_name can hold,
\* computed once
formatted ==
    [x \in {handle[h] : h \in DOMAIN handle} \cup {NULL, "Me", "Unknown"} |->
        format_sender(x)]

\* Python truthiness of a string or None
Truthy(x) == x # NULL /\ x # ""

\* line 236 without the chat_id test
TakesThreadPath_AnyChat(thread_originator_guid, chat_id) == Truthy(thread_originator_guid)

\* line 236: if thread_originator_guid and chat_id
TakesThreadPath(thread_originator_guid, chat_id) ==
    Truthy(thread_originator_guid) /\ chat_id # 0

\* line 241: if not is_thread and chat_id
TakesRegularPath(is_thread, chat_id) == ~is_thread /\ chat_id # 0

\* lines 233-244: what the iteration can find as context.  raised: the
\* unpacking of get_thread_context's value into three names failed
Contexts(rowid, chat_id) ==
    LET joty == message[rowid]
        tog == joty.thread_originator_guid
        threaded == TakesThreadPath(tog, chat_id)
        rets == IF threaded
                THEN get_thread_context(tog, joty.date, rowid, chat_id, num_before_thread)
                ELSE { << <<>>, FALSE, 0 >> }
        asked == IF threaded THEN ThreadQueries(tog) ELSE {}
    IN  UNION {
          IF Len(ret) # 3
          THEN { [raised |-> TRUE, context_msgs |-> <<>>, is_thread |-> FALSE,
                  thread_start_index |-> 0, queries |-> asked] }
          ELSE IF TakesRegularPath(ret[2], chat_id)
          THEN { [raised |-> FALSE, context_msgs |-> c, is_thread |-> ret[2],
                  thread_start_index |-> ret[3], queries |-> asked \cup {"regular"}] :
                 c \in get_regular_context(rowid, joty.date, chat_id, num_before) }
          ELSE { [raised |-> FALSE,
                  context_msgs |-> IF chat_id = 0 THEN <<>> ELSE ret[1],
                  is_thread |-> ret[2], thread_start_index |-> ret[3],
                  queries |-> asked] } :
          ret \in rets }

\* idx incremented before the excluded-chat test
IdxAfter_BeforeSkip(i, excluded) == i + 1

\* lines 227-231: idx after the excluded-chat test
IdxAfter(i, excluded) == IF excluded THEN i ELSE i + 1

\* line 252 with the boundary one entry late
InThread_AfterStart(is_thread, i, thread_start_index) == is_thread /\ i > thread_start_index

\* line 252, i counted from 0 as enumerate does
InThread(is_thread, i, thread_start_index) == is_thread /\ i >= thread_start_index

\* lines 247-260
ContextEntry(msg_rowid, i, is_thread, thread_start_index) ==
    LET msg == message[msg_rowid]
    IN  [ time |-> Hm(msg.date),
          sender |-> IF msg.is_from_me THEN "Jesse" ELSE formatted[SenderOf(msg_rowid)],
          text |-> msg.text,
          has_image |-> msg.cache_has_attachments # 0,
          in_thread |-> InThread(is_thread, i, thread_start_index) ]

\* line 223
JotySender(rowid) ==
    IF message[rowid].is_from_me THEN "Jesse"
    ELSE formatted[get_handle_name(message[rowid].handle_id)]

\* lines 262-270
JotyEntry(rowid, is_thread) ==
    [ time |-> Hm(message[rowid].date),
      sender |-> JotySender(rowid),
      text |-> stripped[message[rowid].text],
      has_image |-> FALSE,
      is_joty |-> TRUE,
      in_thread |-> is_thread ]

\* lines 246-270
ContextList(rowid, context_msgs, is_thread, thread_start_index) ==
    [i \in 1..Len(context_msgs) |->
        ContextEntry(context_msgs[i], i - 1, is_thread, thread_start_index)]
    \o <<JotyEntry(rowid, is_thread)>>

\* lines 272-280
ReviewEntry(id, rowid, chat_name, is_thread, context_list) ==
    [ id |-> id,
      joty_time |-> YmdHm(message[rowid].date),
      joty_text |-> stripped[message[rowid].text],
      joty_sender |-> JotySender(rowid),
      chat_name |-> chat_name,
      is_thread |-> is_thread,
      context |-> context_list ]

\* m.get('is_joty')
IsJoty(m) == "is_joty" \in DOMAIN m /\ m.is_joty

\* the candidate test without "not m.get('is_joty')"
JokeCandidate_WithJoty(m) == Truthy(m.text) /\ Len(m.text) > 5

\* m['text'] and len(m['text']) > 5 and not m.get('is_joty')
JokeCandidate(m) == Truthy(m.text) /\ Len(m.text) > 5 /\ ~IsJoty(m)

\* lines 299-306: the "Likely joke" line of a section, <<>> when none
LikelyJoke(context_list) ==
    LET joke_candidates == SelectSeq(context_list, JokeCandidate)
    IN  IF joke_candidates # <<>>
        THEN << [ text |-> joke_candidates[Len(joke_candidates)].text,
                  sender |-> joke_candidates[Len(joke_candidates)].sender ] >>
        ELSE <<>>

\* lines 283-308: one section of the markdown
Section(entry) ==
    [ id |-> entry.id, is_thread |-> entry.is_thread,
      joty_sender |-> entry.joty_sender,
      likely_joke |-> LikelyJoke(entry.context) ]

-----------------------------------------------------------------------------
(* regenerate_with_names.py *)

NAME_MAP ==
    [ k \in { "(3660)", "(7478)", "(0842)", "shubham.patel23", "gshellady23",
              "(9141)", "(4025)", "(9025)", "(8841)", "(0387)" } |->
        CASE k = "(3660)" -> "Will"
          [] k = "(7478)" -> "Connor"
          [] k = "(0842)" -> "Shubs"
          [] k = "shubham.patel23" -> "Shubs"
          [] k = "gshellady23" -> "Geoff"
          [] k = "(9141)" -> "Adi"
          [] k = "(4025)" -> "Steven"
          [] k = "(9025)" -> "Morgan"
          [] k = "(8841)" -> "Geoff"
          [] k = "(0387)" -> "Andrew" ]

\* a table in which one value is itself a key
map_name_Chained(sender) ==
    IF sender = "(3660)" THEN "(7478)"
    ELSE IF sender \in DOMAIN NAME_MAP THEN NAME_MAP[sender] ELSE sender

\* NAME_MAP.get(sender, sender)
map_name(sender) == IF sender \in DOMAIN NAME_MAP THEN NAME_MAP[sender] ELSE sender

\* lines 32-35: the name update of one item
UpdateNames(item) ==
    [ item EXCEPT
        !.joty_sender = map_name(@),
        !.context = [i \in 1..Len(@) |-> [@[i] EXCEPT !.sender = map_name(@)]] ]

-----------------------------------------------------------------------------
(* The runs *)

Init ==
    /\ \E rd \in Dates, rt \in {T_ROOT, NULL},
          jk \in J1Kinds, jt \in {NULL, GuidOf(RootId)} :
         \E d \in [CtxIds -> Dates], k \in [CtxIds -> 1..Len(CtxKinds)] :
            /\ Canonical(d, k)
            /\ message = Store(rd, rt, d, k, jk, jt)
    /\ pc = "start"
    /\ joty_messages = <<>>
    /\ pos = 0
    /\ idx = 0
    /\ all_contexts = <<>>
    /\ md_content = <<>>
    /\ trace = <<>>
    /\ json_file = <<>>
    /\ md_file = <<>>
    /\ passes = 0

\* extract_joty_clean.main, lines 208-218
Start ==
    /\ pc = "start"
    /\ joty_messages' \in get_joty_messages
    /\ pc' = "loop"
    /\ UNCHANGED <<message, pos, idx, all_contexts, md_content, trace,
                   json_file, md_file, passes>>

\* extract_joty_clean.main, lines 219-308: one iteration of the loop
Iterate ==
    /\ pc = "loop"
    /\ pos < Len(joty_messages)
    /\ pos' = pos + 1
    /\ LET rowid == joty_messages[pos + 1]
           chat_id == get_chat_info(rowid)[1]
           chat_name == get_chat_info(rowid)[2]
       IN  /\ idx' = IdxAfter(idx, chat_name \in EXCLUDED_CHATS)
           /\ IF chat_name \in EXCLUDED_CHATS
              THEN UNCHANGED <<pc, all_contexts, md_content, trace>>
              ELSE \E o \in Contexts(rowid, chat_id) :
                     IF o.raised
                     THEN /\ pc' = "crashed"
                          /\ UNCHANGED <<all_contexts, md_content, trace>>
                     ELSE LET context_list ==
                                  ContextList(rowid, o.context_msgs, o.is_thread,
                                              o.thread_start_index)
                              entry == ReviewEntry(idx', rowid, chat_name,
                                                   o.is_thread, context_list)
                          IN  /\ all_contexts' = Append(all_contexts, entry)
                              /\ md_content' = Append(md_content, Section(entry))
                              /\ trace' = Append(trace,
                                    [ rowid |-> rowid,
                                      rows |-> Append(o.context_msgs, rowid),
                                      thread_start_index |-> o.thread_start_index,
                                      queries |-> o.queries ])
                              /\ UNCHANGED pc
    /\ UNCHANGED <<message, joty_messages, json_file, md_file, passes>>

\* extract_joty_clean.main, lines 310-325: the loop is over, both files are written
Save ==
    /\ pc = "loop"
    /\ pos = Len(joty_messages)
    /\ json_file' = all_contexts
    /\ md_file' = md_content
    /\ pc' = "done"
    /\ UNCHANGED <<message, joty_messages, pos, idx, all_contexts, md_content,
                   trace, passes>>

\* regenerate_with_names.main: one run over the files extract_joty_clean wrote
Regenerate ==
    /\ pc = "done"
    /\ LET data == [i \in 1..Len(json_file) |-> UpdateNames(json_file[i])]
       IN  /\ json_file' = data
           /\ md_file' = [i \in 1..Len(data) |-> Section(data[i])]
    /\ passes' = IF passes < 2 THEN passes + 1 ELSE passes
    /\ UNCHANGED <<message, pc, joty_messages, pos, idx, all_contexts,
                   md_content, trace>>

Next == Start \/ Iterate \/ Save \/ Regenerate

Spec == Init /\ [][Next]_vars

-----------------------------------------------------------------------------
(* Properties *)

\* the entries main has appended so far, by position
Entries == 1..Len(all_contexts)

\* the nomination row behind entry e and the rows behind its context
NominationOf(e) == message[trace[e].rowid]
RowsOf(e) == trace[e].rows

\* C1: for every candidate, the context sequence is non-decreasing in
\* message timestamp and its final element, and only that one, is the
\* nomination itself
C1_ChronologicalEndingInNomination ==
    \A e \in Entries :
        LET rows == RowsOf(e)
            ctx == all_contexts[e].context
        IN  /\ Len(ctx) = Len(rows)
            /\ \A i \in 1..Len(rows) : \A j \in 1..Len(rows) :
                 i < j => message[rows[i]].date <= message[rows[j]].date
            /\ rows[Len(rows)] = trace[e].rowid
            /\ \A i \in 1..Len(ctx) : IsJoty(ctx[i]) <=> i = Len(ctx)

\* the processed candidates that are in a chat that is not excluded and
\* reply to a guid no message has
Unresolvable(p) ==
    LET m == message[joty_messages[p]]
    IN  /\ get_chat_info(joty_messages[p])[1] # 0
        /\ get_chat_info(joty_messages[p])[2] \notin EXCLUDED_CHATS
        /\ Truthy(m.thread_originator_guid)
        /\ \A r \in Msgs : message[r].guid # m.thread_originator_guid

\* C2: a nomination whose thread originator cannot be found does not fail
\* the run: it yields an entry with is_thread = false and the flat context,
\* and the candidates after it are still processed
C2_UnresolvableOriginatorDoesNotFail ==
    /\ pc # "crashed"
    /\ \A p \in 1..pos :
         Unresolvable(p) =>
            \E e \in Entries :
               /\ trace[e].rowid = joty_messages[p]
               /\ ~all_contexts[e].is_thread
               /\ SubSeq(RowsOf(e), 1, Len(RowsOf(e)) - 1) \in
                    get_regular_context(joty_messages[p], message[joty_messages[p]].date,
                                        message[joty_messages[p]].chat_id, num_before)
    /\ pc = "done" => pos = Len(joty_messages)

\* C3: in a threaded entry the originator sits at the thread-start index,
\* every entry before it has in_thread = false, and the originator and every
\* entry after it, the nomination included, have in_thread = true
C3_ThreadFlags ==
    \A e \in Entries :
        all_contexts[e].is_thread =>
            LET ctx == all_contexts[e].context
                start == trace[e].thread_start_index
            IN  /\ start + 1 < Len(ctx)
                /\ message[RowsOf(e)[start + 1]].guid = NominationOf(e).thread_originator_guid
                /\ \A i \in 1..start : message[RowsOf(e)[i]].thread_originator_guid = NULL
                /\ \A i \in 1..Len(ctx) : ctx[i].in_thread <=> (i > start)

\* C3 happens: a threaded entry with a pre-thread message, the originator,
\* a reply and the nomination
C3_Witness ==
    \E e \in Entries :
        /\ all_contexts[e].is_thread
        /\ trace[e].thread_start_index >= 1
        /\ Len(all_contexts[e].context) >= trace[e].thread_start_index + 3

\* the texts of the model that the context queries let through
PassingTexts == {T_LONG, T_SHORT, T_DISLIKED, T_ROOT, T_JOTY, T_JOTY_LOL}

\* the rows of the nomination's chat, strictly before it, that the flat
\* query lets through
Preceding(e) ==
    { r \in Msgs :
        /\ NominationOf(e).chat_id # 0
        /\ message[r].chat_id = NominationOf(e).chat_id
        /\ message[r].date < NominationOf(e).date
        /\ message[r].text \in PassingTexts }

\* the rows of entry e's context before the nomination
Returned(e) == {RowsOf(e)[i] : i \in 1..(Len(RowsOf(e)) - 1)}

C5_NoExcludedChatDenseIds ==
    /\ \A e \in Entries :
         /\ all_contexts[e].chat_name \notin EXCLUDED_CHATS
         /\ all_contexts[e].id = e
    /\ \A e \in 1..Len(json_file) :
         /\ json_file[e].chat_name \notin EXCLUDED_CHATS
         /\ json_file[e].id = e

\* C5 happens: the first candidate was skipped as excluded and the second
\* one was written out
C5_Witness ==
    /\ pc = "done"
    /\ Len(joty_messages) = 2
    /\ get_chat_info(joty_messages[1])[2] \in EXCLUDED_CHATS
    /\ Len(json_file) = 1
    /\ trace[1].rowid = joty_messages[2]

ReactionPrefixes == {"Loved", "Liked", "Emphasized", "Laughed at", "Disliked"}

\* C6: no context entry other than the nomination has empty or missing text
\* or text that begins with a reaction prefix
C6_NoReactionOrEmptyContext ==
    \A e \in Entries :
        \A i \in 1..Len(all_contexts[e].context) :
            LET m == all_contexts[e].context[i]
            IN  ~IsJoty(m) =>
                   /\ m.text # NULL
                   /\ m.text # ""
                   /\ \A p \in ReactionPrefixes : ~StartsWith(m.text, p)

\* C7: the flat path returns the nearest preceding rows: every returned row
\* is strictly before the nomination, no omitted preceding row is strictly
\* later than a returned one, and when more than num_before rows precede,
\* num_before are returned
C7_NearestPreceding ==
    \A e \in Entries :
        (~all_contexts[e].is_thread /\ NominationOf(e).chat_id # 0) =>
            /\ \A r \in Returned(e) : message[r].date < NominationOf(e).date
            /\ \A q \in Preceding(e) \ Returned(e) : \A r \in Returned(e) :
                 ~(message[q].date > message[r].date)
            /\ Cardinality(Preceding(e)) > num_before =>
                 Cardinality(Returned(e)) = num_before

\* C7 happens: a flat entry that left out a preceding row older than a
\* returned one
C7_Witness ==
    \E e \in Entries :
        /\ ~all_contexts[e].is_thread
        /\ Cardinality(Preceding(e)) > num_before
        /\ \E q \in Preceding(e) \ Returned(e) : \E r \in Returned(e) :
             message[q].date < message[r].date

\* C8: once the name-remapping script has run, running it again leaves
\* every entry as it is
C8_RemapIdempotent ==
    [][(pc = "done" /\ passes >= 1) => json_file' = json_file]_vars

\* C8 happens: the script has run twice over entries in which it replaced
\* a sender of a context line
C8_Witness ==
    /\ passes = 2
    /\ \E e \in 1..Len(json_file) : \E i \in 1..Len(json_file[e].context) :
         /\ json_file[e].context[i].sender # all_contexts[e].context[i].sender
         /\ json_file[e].context[i].sender \in {NAME_MAP[k] : k \in DOMAIN NAME_MAP}

\* the pick of a section is the last line of the context with text longer
\* than 5 characters that is not the nomination, and there is no pick when
\* no line is one
PickIsLastLongLine(context, pick) ==
    LET long == { i \in 1..Len(context) :
                    /\ context[i].text # NULL
                    /\ context[i].text # ""
                    /\ Len(context[i].text) > 5
                    /\ ~IsJoty(context[i]) }
    IN  IF long = {}
        THEN pick = <<>>
        ELSE LET last == CHOOSE i \in long : \A j \in long : j <= i
             IN  pick = << [text |-> context[last].text, sender |-> context[last].sender] >>

\* C9: in both scripts, the "likely joke" of every entry is the last context
\* line with text longer than 5 characters that is not the nomination
C9_LikelyJokeIsLastLongLine ==
    /\ \A e \in Entries :
         PickIsLastLongLine(all_contexts[e].context, md_content[e].likely_joke)
    /\ \A e \in 1..Len(md_file) :
         PickIsLastLongLine(json_file[e].context, md_file[e].likely_joke)

\* C9 happens: an entry whose nomination text is longer than 5 characters,
\* with two long lines before it, the pick not being the first of them
C9_Witness ==
    \E e \in Entries :
        LET ctx == all_contexts[e].context
        IN  /\ Len(ctx[Len(ctx)].text) > 5
            /\ \E i \in 1..Len(ctx) : \E j \in 1..Len(ctx) :
                 /\ i < j /\ j < Len(ctx)
                 /\ JokeCandidate(ctx[i]) /\ JokeCandidate(ctx[j])
                 /\ ctx[i].text # ctx[j].text
                 /\ md_content[e].likely_joke # <<>>
                 /\ md_content[e].likely_joke[1].text = ctx[j].text

\* C10: a processed nomination with no chat yields an entry whose context is
\* the nomination alone, with is_thread = false, and no context query was
\* sent to the store for it
C10_NoChatYieldsNominationOnly ==
    \A p \in 1..pos :
        message[joty_messages[p]].chat_id \notin DOMAIN chat =>
            \E e \in Entries :
                /\ trace[e].rowid = joty_messages[p]
                /\ Len(all_contexts[e].context) = 1
                /\ IsJoty(all_contexts[e].context[1])
                /\ all_contexts[e].context[1].text = all_contexts[e].joty_text
                /\ ~all_contexts[e].is_thread
                /\ ~all_contexts[e].context[1].in_thread
                /\ trace[e].queries = {}

\* C10 happens: an entry for a nomination that has no chat and replies to
\* a message of the store
C10_Witness ==
    \E e \in Entries :
        /\ NominationOf(e).chat_id \notin DOMAIN chat
        /\ \E r \in Msgs : message[r].guid = NominationOf(e).thread_originator_guid

\* the context of a threaded entry e before the nomination is: the entries
\* before the thread-start index, at most num_before_thread of them, each a
\* different non-threaded row of the nomination's chat strictly before the
\* originator; then the originator; then the rows of the set replies, each
\* once
ThreadedContextIs(e, replies) ==
    LET rows == RowsOf(e)
        start == trace[e].thread_start_index
        n == Len(rows) - 1
    IN  /\ start <= num_before_thread
        /\ start + 1 <= n
        /\ message[rows[start + 1]].guid = NominationOf(e).thread_originator_guid
        /\ \A i \in 1..start :
             /\ message[rows[i]].thread_originator_guid = NULL
             /\ message[rows[i]].chat_id = NominationOf(e).chat_id
             /\ message[rows[i]].date < message[rows[start + 1]].date
             /\ \A j \in 1..start : i # j => rows[i] # rows[j]
        /\ {rows[i] : i \in (start + 2)..n} = replies
        /\ n - (start + 1) = Cardinality(replies)

\* the rows that reply to the originator of entry e's nomination, strictly
\* before the nomination
RepliesBefore(e) ==
    { r \in Msgs :
        /\ message[r].thread_originator_guid = NominationOf(e).thread_originator_guid
        /\ message[r].date < NominationOf(e).date }

====
